---- MODULE Spec2Model ----
(***************************************************************************)
(* Model of ppvs::AssetManager (Puyolib/AssetManager.cpp).                 *)
(*                                                                         *)
(* Two manager slots exist: slot 1 is the manager the caller constructs,   *)
(* slot 2 is the manager returned by clone().  AssetBundle, Frontend,      *)
(* DebugLog, FeImage and FeSound are external collaborators: what a bundle *)
(* answers to a request (its valid flag after init and reload, its active  *)
(* flag, the handle, path or names it returns) is an input of the call,    *)
(* drawn from a small set and recorded in `call` next to what the manager  *)
(* did with it.  A null pointer is 0.  Dereferencing a null pointer is     *)
(* undefined: the model lets the process die or lets the read yield either *)
(* truth value.                                                            *)
(***************************************************************************)
EXTENDS Integers, Sequences, FiniteSets, TLC

\* ------------------------------------------------------------------ bounds
MaxBundles == 4     \* bundle objects the managers can hold at once
MaxList == 2        \* longest registry explored
MaxRef == 1         \* distinct non-null Frontend / DebugLog objects
MaxPriority == 1    \* priorities 0..MaxPriority are passed to loadBundle
MaxName == 2        \* distinct names a bundle listing may contain

NULL == 0
Mgrs == {1, 2}
Other(m) == 3 - m
BundleIds == 1..MaxBundles
Refs == 0..MaxRef
Names == 1..MaxName

VARIABLES
    mgr,        \* mgr[m]: exists, m_front, m_debug, activated, m_bundleList
    bundle,     \* bundle[b]: st, valid, m_debug, front
    call,       \* the last call made on a manager and what it produced
    crashed     \* the process died on a null dereference

vars == <<mgr, bundle, call, crashed>>

\* ------------------------------------------------------------ data values
NoBundle == [st |-> "none", valid |-> FALSE, m_debug |-> NULL, front |-> NULL]

NoManager == [exists |-> FALSE, m_front |-> NULL, m_debug |-> NULL,
              activated |-> FALSE, m_bundleList |-> <<>>]

\* AssetManager.h member initialisers: null collaborators, not activated.
DefaultManager == [exists |-> TRUE, m_front |-> NULL, m_debug |-> NULL,
                   activated |-> FALSE, m_bundleList |-> <<>>]

Call(op, m, arg, pre, ret, resp, consulted, logs) ==
    [op |-> op, m |-> m, arg |-> arg, pre |-> pre, ret |-> ret,
     resp |-> resp, consulted |-> consulted, logs |-> logs]

Range(s) == {s[i] : i \in 1..Len(s)}

\* m_debug->log(msg, severity): the entries one call appends to the log.
LogIf(dbg, sev) == IF dbg # NULL THEN <<sev>> ELSE <<>>

\* ---------------------------------------------------------- construction
ConstructActivated(fe, dbg) ==
    [DefaultManager EXCEPT !.m_front = fe, !.m_debug = dbg, !.activated = TRUE]

\* AssetManager::AssetManager(fe, dbg): binds both, logs if dbg is non-null,
\* and does not touch `activated`.
ConstructWith(fe, dbg) == [DefaultManager EXCEPT !.m_front = fe, !.m_debug = dbg]

Init ==
    /\ bundle = [b \in BundleIds |-> NoBundle]
    /\ crashed = FALSE
    /\ \/ /\ mgr = [m \in Mgrs |-> IF m = 1 THEN DefaultManager ELSE NoManager]
          /\ call = Call("ctor", 1, <<>>, <<>>, TRUE, <<>>, 0, <<>>)
       \/ \E fe \in Refs, dbg \in Refs :
          /\ mgr = [m \in Mgrs |-> IF m = 1 THEN ConstructWith(fe, dbg) ELSE NoManager]
          /\ call = Call("ctor", 1, <<fe, dbg>>, <<>>, TRUE, <<>>, 0, LogIf(dbg, "Debug"))

\* ------------------------------------------------------------- activate
\* reloadBundles(): bundle->reload(m_front) on every bundle of the list.
ReloadedBundles(list, fe, bs) ==
    [b \in BundleIds |-> IF b \in Range(list) THEN [bs[b] EXCEPT !.front = fe] ELSE bs[b]]

ActivatedAfterEither(fe, dbg) == fe # NULL \/ dbg # NULL

\* if (m_front != nullptr && m_debug != nullptr) activated = true; else false
ActivatedAfter(fe, dbg) == fe # NULL /\ dbg # NULL

ActivateManager(M, fe, dbg) ==
    [M EXCEPT !.m_front = fe, !.m_debug = dbg, !.activated = ActivatedAfter(fe, dbg)]

Activate(m, fe, dbg) ==
    /\ ~crashed
    /\ mgr[m].exists
    /\ mgr' = [mgr EXCEPT ![m] = ActivateManager(mgr[m], fe, dbg)]
    /\ bundle' = ReloadedBundles(mgr[m].m_bundleList, fe, bundle)
    /\ call' = Call("activate", m, <<fe, dbg>>, <<mgr[m].activated>>, TRUE, <<>>, 0, <<>>)
    /\ UNCHANGED crashed

\* ------------------------------------------------------------ loadBundle
\* bundle->init(m_front); bundle->reload(); bundle->m_debug = m_debug;
\* `v` is the bundle's valid flag after init and reload.
InitBundle(B, M, v) ==
    [B EXCEPT !.st = "live", !.valid = v, !.m_debug = M.m_debug, !.front = M.m_front]

PushAlways(list, b, v, priority) == Append(list, b)

\* if (bundle->valid) m_bundleList.push_back(bundle);   priority is unused
PushIfValid(list, b, v, priority) == IF v THEN Append(list, b) ELSE list

\* return bundle->valid;
LoadBundleReturn(v) == v

FreeIds == {b \in BundleIds : bundle[b].st = "none"}
Lowest(S) == CHOOSE x \in S : \A y \in S : x <= y

\* The bundle a caller hands over is one it has just created.
Fresh == IF FreeIds = {} THEN {} ELSE {Lowest(FreeIds)}

\* Ownership stays with the caller when loadBundle returns false; the caller
\* disposes of the rejected bundle.
AfterLoad(B, v) == IF v THEN B ELSE NoBundle

LoadBundle(m, b, v, priority) ==
    /\ ~crashed
    /\ mgr[m].exists
    /\ b \in Fresh
    /\ Len(mgr[m].m_bundleList) < MaxList
    /\ bundle' = [bundle EXCEPT ![b] = AfterLoad(InitBundle(bundle[b], mgr[m], v), v)]
    /\ mgr' = [mgr EXCEPT ![m].m_bundleList = PushIfValid(@, b, v, priority)]
    /\ call' = Call("loadBundle", m, <<b>>, mgr[m].m_bundleList, LoadBundleReturn(v),
                    <<v>>, 0, <<>>)
    /\ UNCHANGED crashed

\* ---------------------------------------------------------- deleteBundle
\* m_bundleList.remove(bundle): every occurrence goes.
RemoveAll(list, b) == SelectSeq(list, LAMBDA x : x # b)

\* The argument is a bundle of the registry, or one the caller still owns.
DeleteBundle(m, b) ==
    /\ ~crashed
    /\ mgr[m].exists
    /\ b \in Range(mgr[m].m_bundleList) \cup Fresh
    /\ mgr' = [mgr EXCEPT ![m].m_bundleList = RemoveAll(@, b)]
    /\ bundle' = [bundle EXCEPT ![b] = NoBundle]
    /\ call' = Call("deleteBundle", m, <<>>, <<>>, FALSE, <<>>, 0, <<>>)
    /\ UNCHANGED crashed

\* ------------------------------------------------------------- unloadAll
\* `act[i]` is the active flag the i-th bundle of the list reports when the
\* loop reads it; a bundle tombstones itself outside the manager.
RECURSIVE PruneSkipping(_, _)
PruneSkipping(list, act) ==
    IF list = <<>> THEN <<>>
    ELSE IF ~Head(act)
         THEN (IF Len(list) = 1 THEN <<>>
               ELSE <<list[2]>> \o PruneSkipping(Tail(Tail(list)), Tail(Tail(act))))
         ELSE <<Head(list)>> \o PruneSkipping(Tail(list), Tail(act))

\* while (i != end) { if (!(*i)->active) erase(i++); else i++; }
RECURSIVE PruneLoop(_, _)
PruneLoop(list, act) ==
    IF list = <<>> THEN <<>>
    ELSE IF ~Head(act)
         THEN PruneLoop(Tail(list), Tail(act))
         ELSE <<Head(list)>> \o PruneLoop(Tail(list), Tail(act))

\* erase() unlinks a tombstone without destroying it; the manager holds no
\* pointer to it afterwards and the model stops tracking the object.
Unlinked(list, act, bs) ==
    [b \in BundleIds |->
        IF b \in Range(list) /\ b \notin Range(PruneLoop(list, act)) THEN NoBundle ELSE bs[b]]

\* if (m_bundleList.empty()) return true; ... return false;
UnloadAllReturn(list, act) == list = <<>>

UnloadAll(m, act) ==
    /\ ~crashed
    /\ mgr[m].exists
    /\ Len(act) = Len(mgr[m].m_bundleList)
    /\ mgr' = [mgr EXCEPT ![m].m_bundleList = PruneLoop(@, act)]
    /\ bundle' = Unlinked(mgr[m].m_bundleList, act, bundle)
    /\ call' = Call("unloadAll", m, <<>>, <<>>,
                    UnloadAllReturn(mgr[m].m_bundleList, act), act, 0, <<>>)
    /\ UNCHANGED crashed

\* ----------------------------------------------------------------- clone
RECURSIVE Ascending(_)
Ascending(S) == IF S = {} THEN <<>> ELSE <<Lowest(S)>> \o Ascending(S \ {Lowest(S)})

\* bundle->clone(): a new object that copies the bundle.
CloneOf(B) == B

SharedPointer(src, fresh) == src

\* The pointer handed to current->loadBundle: the clone, not the source.
ClonePointer(src, fresh) == fresh

\* A clone that loadBundle rejects is dropped by clone() without being
\* destroyed; nothing refers to it afterwards.
CloneKept(B, v) == IF v THEN B ELSE NoBundle

\* for (auto bundle : m_bundleList) current->loadBundle(bundle->clone());
RECURSIVE CloneLoop(_, _, _, _, _)
CloneLoop(src, fresh, vs, i, acc) ==
    IF i > Len(src) THEN acc
    ELSE LET c == ClonePointer(src[i], fresh[i])
             B == InitBundle(CloneOf(acc.bs[src[i]]), acc.M, vs[i])
         IN CloneLoop(src, fresh, vs, i + 1,
                [M  |-> [acc.M EXCEPT !.m_bundleList = PushIfValid(@, c, vs[i], 0)],
                 bs |-> [acc.bs EXCEPT ![c] = CloneKept(B, vs[i])]])

\* auto* current = new AssetManager; <loop>; current->activate(m_front, m_debug);
CloneManager(M, fresh, vs, bs) ==
    LET looped == CloneLoop(M.m_bundleList, fresh, vs, 1, [M |-> DefaultManager, bs |-> bs])
    IN [M  |-> ActivateManager(looped.M, M.m_front, M.m_debug),
        bs |-> ReloadedBundles(looped.M.m_bundleList, M.m_front, looped.bs)]

Clone(m, vs) ==
    /\ ~crashed
    /\ mgr[m].exists
    /\ ~mgr[Other(m)].exists
    /\ Len(vs) = Len(mgr[m].m_bundleList)
    /\ Cardinality(FreeIds) >= Len(vs)
    /\ LET fresh == Ascending(FreeIds)
           res == CloneManager(mgr[m], fresh, vs, bundle)
       IN /\ mgr' = [mgr EXCEPT ![Other(m)] = res.M]
          /\ bundle' = res.bs
          /\ call' = Call("clone", m, SubSeq(fresh, 1, Len(vs)), mgr[m].m_bundleList,
                          TRUE, vs, 0, <<>>)
    /\ UNCHANGED crashed

\* ----------------------------------------------- loadImage / loadSound
\* What a bundle hands back for the requested token: a null pointer, a
\* handle whose error() is true, or a handle whose error() is false.
Answers == {"null", "err", "ok"}

NullHandle == [src |-> 0, st |-> "null"]

\* The handle the i-th bundle of the list returned.
Handle(i, answer) == IF answer = "null" THEN NullHandle ELSE [src |-> i, st |-> answer]

\* target->error()
Error(h) == h.st = "err"

\* What dereferencing a null pointer does: the process dies, or the read
\* yields either truth value and execution goes on.
Derefs == {"crash", "true", "false"}

Loop(target, consulted, died) == [target |-> target, consulted |-> consulted, died |-> died]

\* for (bundle) { target = bundle->loadImage(..); if (target != nullptr && !target->error()) break; }
RECURSIVE ImageLoop(_, _, _)
ImageLoop(resp, i, target) ==
    IF i > Len(resp) THEN Loop(target, Len(resp), FALSE)
    ELSE LET t == Handle(i, resp[i])
         IN IF t # NullHandle /\ ~Error(t) THEN Loop(t, i, FALSE)
            ELSE ImageLoop(resp, i + 1, t)

\* for (bundle) { target = bundle->loadSound(..); if (!target->error()) break; else target = nullptr; }
\* target->error() is evaluated without a null check.
RECURSIVE SoundLoop(_, _, _, _)
SoundLoop(resp, i, target, ub) ==
    IF i > Len(resp) THEN Loop(target, Len(resp), FALSE)
    ELSE LET t == Handle(i, resp[i])
             err == IF t = NullHandle THEN ub = "true" ELSE Error(t)
         IN IF t = NullHandle /\ ub = "crash" THEN Loop(t, i, TRUE)
            ELSE IF ~err THEN Loop(t, i, FALSE)
            ELSE SoundLoop(resp, i + 1, NullHandle, ub)

\* if (target == nullptr || target->error()) m_debug->log(.., Error);
\* m_debug is dereferenced without a null check.
HandleFailed(target) == target = NullHandle \/ Error(target)

ErrorLog(failed, dbg, ub) ==
    [logs |-> IF failed /\ dbg # NULL THEN <<"Error">> ELSE <<>>,
     died |-> failed /\ dbg = NULL /\ ub = "crash"]

\* The part of a lookup after its loop: log on failure, return target.
Finish(op, overload, m, resp, loop, failed, ub) ==
    LET log == ErrorLog(failed /\ ~loop.died, mgr[m].m_debug, ub)
    IN /\ call' = Call(op, m, <<overload>>, <<>>, loop.target, resp, loop.consulted, log.logs)
       /\ crashed' = (loop.died \/ log.died)
       /\ UNCHANGED <<mgr, bundle>>

Lookup(m, resp) ==
    /\ ~crashed
    /\ mgr[m].exists
    /\ Len(resp) = Len(mgr[m].m_bundleList)

\* loadImage(token, custom)
LoadImage(m, resp, ub) ==
    /\ Lookup(m, resp)
    /\ LET loop == ImageLoop(resp, 1, NullHandle)
       IN Finish("loadImage", "custom", m, resp, loop, HandleFailed(loop.target), ub)

\* loadImage(token, character)
LoadCharImage(m, resp, ub) ==
    /\ Lookup(m, resp)
    /\ LET loop == ImageLoop(resp, 1, NullHandle)
       IN Finish("loadImage", "character", m, resp, loop, HandleFailed(loop.target), ub)

\* loadSound(token, custom)
LoadSound(m, resp, ub) ==
    /\ Lookup(m, resp)
    /\ LET loop == SoundLoop(resp, 1, NullHandle, ub)
       IN Finish("loadSound", "custom", m, resp, loop, HandleFailed(loop.target), ub)

\* loadSound(token, character)
LoadCharSound(m, resp, ub) ==
    /\ Lookup(m, resp)
    /\ LET loop == SoundLoop(resp, 1, NullHandle, ub)
       IN Finish("loadSound", "character", m, resp, loop, HandleFailed(loop.target), ub)

\* ---------------------------------------------------- getAnimationFolder
\* A bundle answers with the empty string ("null") or with a path ("ok");
\* the path of the i-th bundle is the one-element string <<i>>.
PathAnswers == {"null", "ok"}

Path(i, answer) == IF answer = "ok" THEN <<i>> ELSE <<>>

\* for (bundle) { target = bundle->getAnimationFolder(..); if (!target.empty()) break; }
RECURSIVE FolderLoop(_, _, _)
FolderLoop(resp, i, target) ==
    IF i > Len(resp) THEN Loop(target, Len(resp), FALSE)
    ELSE LET t == Path(i, resp[i])
         IN IF t # <<>> THEN Loop(t, i, FALSE)
            ELSE FolderLoop(resp, i + 1, t)

\* getAnimationFolder(character)
GetCharAnimationFolder(m, resp, ub) ==
    /\ Lookup(m, resp)
    /\ LET loop == FolderLoop(resp, 1, <<>>)
       IN Finish("getAnimationFolder", "character", m, resp, loop, loop.target = <<>>, ub)

\* getAnimationFolder(token, script_name)
GetAnimationFolder(m, resp, ub) ==
    /\ Lookup(m, resp)
    /\ LET loop == FolderLoop(resp, 1, <<>>)
       IN Finish("getAnimationFolder", "custom", m, resp, loop, loop.target = <<>>, ub)

\* ------------------------------------------------------------ list*()
\* `resp[i]` is the set of names the i-th bundle lists.
RECURSIVE ListLoopLast(_, _, _)
ListLoopLast(resp, i, result) ==
    IF i > Len(resp) THEN result ELSE ListLoopLast(resp, i + 1, resp[i])

\* for (bundle) for (value : bundle->listX()) result.insert(value);
RECURSIVE ListLoop(_, _, _)
ListLoop(resp, i, result) ==
    IF i > Len(resp) THEN result ELSE ListLoop(resp, i + 1, result \cup resp[i])

Listing(op, m, resp) ==
    /\ Lookup(m, resp)
    /\ call' = Call(op, m, <<>>, <<>>, ListLoop(resp, 1, {}), resp, Len(resp), <<>>)
    /\ UNCHANGED <<mgr, bundle, crashed>>

ListPuyoSkins(m, resp) == Listing("listPuyoSkins", m, resp)

ListBackgrounds(m, resp) == Listing("listBackgrounds", m, resp)

ListCharacterSkins(m, resp) == Listing("listCharacterSkins", m, resp)

ListSfx(m, resp) == Listing("listSfx", m, resp)

\* ------------------------------------------------------- specifications
Flags(m) == [1..Len(mgr[m].m_bundleList) -> BOOLEAN]

Registry ==
    \/ \E m \in Mgrs, b \in BundleIds, v \in BOOLEAN, p \in 0..MaxPriority : LoadBundle(m, b, v, p)
    \/ \E m \in Mgrs, b \in BundleIds : DeleteBundle(m, b)
    \/ \E m \in Mgrs : \E act \in Flags(m) : UnloadAll(m, act)

Next ==
    \/ Registry
    \/ \E m \in Mgrs, fe \in Refs, dbg \in Refs : Activate(m, fe, dbg)

NextClone ==
    \/ Next
    \/ \E m \in Mgrs : \E vs \in Flags(m) : Clone(m, vs)

Queries == {"loadImage", "loadSound", "getAnimationFolder",
            "listPuyoSkins", "listBackgrounds", "listCharacterSkins", "listSfx"}

\* The answers the bundles of m's registry give to one query.  A query reads
\* the registry and changes nothing but `call`: issued right after another
\* query it reaches only states that a query issued directly reaches, so
\* queries are explored after the calls that are not queries.
AnswersOf(m, values) ==
    IF call.op \in Queries THEN {} ELSE [1..Len(mgr[m].m_bundleList) -> values]

HandleAnswers(m) == AnswersOf(m, Answers)
FolderAnswers(m) == AnswersOf(m, PathAnswers)
NameAnswers(m) == AnswersOf(m, SUBSET Names)

NextLookup ==
    \/ Next
    \/ \E m \in Mgrs, ub \in Derefs : \E resp \in HandleAnswers(m) : LoadImage(m, resp, ub)
    \/ \E m \in Mgrs, ub \in Derefs : \E resp \in HandleAnswers(m) : LoadCharImage(m, resp, ub)
    \/ \E m \in Mgrs, ub \in Derefs : \E resp \in HandleAnswers(m) : LoadSound(m, resp, ub)
    \/ \E m \in Mgrs, ub \in Derefs : \E resp \in HandleAnswers(m) : LoadCharSound(m, resp, ub)
    \/ \E m \in Mgrs, ub \in Derefs : \E resp \in FolderAnswers(m) : GetCharAnimationFolder(m, resp, ub)
    \/ \E m \in Mgrs, ub \in Derefs : \E resp \in FolderAnswers(m) : GetAnimationFolder(m, resp, ub)

NextList ==
    \/ Registry
    \/ \E m \in Mgrs : \E resp \in NameAnswers(m) : ListPuyoSkins(m, resp)
    \/ \E m \in Mgrs : \E resp \in NameAnswers(m) : ListBackgrounds(m, resp)
    \/ \E m \in Mgrs : \E resp \in NameAnswers(m) : ListCharacterSkins(m, resp)
    \/ \E m \in Mgrs : \E resp \in NameAnswers(m) : ListSfx(m, resp)

\* One manager: construction, activate, loadBundle, deleteBundle, unloadAll.
Spec == Init /\ [][Next]_vars

\* The same, with clone() producing a second manager.
SpecClone == Init /\ [][NextClone]_vars

\* One manager and the six lookups.
SpecLookup == Init /\ [][NextLookup]_vars

\* One manager and the four enumeration queries.
SpecList == Init /\ [][NextList]_vars

\* ================================================================ claims
Registered(m) == mgr[m].m_bundleList

IsLookup == call.op \in {"loadImage", "loadSound", "getAnimationFolder"}

\* The earliest bundle whose answer is clean, 0 when there is none.
FirstClean ==
    LET clean == {i \in 1..Len(call.resp) : call.resp[i] = "ok"}
    IN IF clean = {} THEN 0 ELSE Lowest(clean)

ResultOf(k) == IF call.op = "getAnimationFolder" THEN <<k>> ELSE Handle(k, "ok")

NoResult == IF call.op = "getAnimationFolder" THEN <<>> ELSE NullHandle

\* C1: when bundle k is the earliest bundle with a clean answer, the lookup
\* returns bundle k's result, consults no bundle after k and logs nothing.
C1_FirstMatch ==
    (IsLookup /\ FirstClean # 0) =>
        /\ ~crashed
        /\ call.ret = ResultOf(FirstClean)
        /\ call.consulted = FirstClean
        /\ call.logs = <<>>

\* C2: when no bundle has a clean answer (the empty registry included), the
\* lookup returns null or the empty string and logs exactly one Error entry.
C2_Exhaustion ==
    (IsLookup /\ FirstClean = 0) =>
        /\ ~crashed
        /\ call.ret = NoResult
        /\ call.logs = <<"Error">>

\* C3: loadBundle appends the bundle at the end of the registry exactly when
\* it is valid after init and reload, returns that validity and leaves the
\* registry alone otherwise; every registered bundle was valid when inserted.
C3_LoadBundle ==
    /\ call.op = "loadBundle" =>
        /\ call.ret = call.resp[1]
        /\ call.resp[1] => Registered(call.m) = Append(call.pre, call.arg[1])
        /\ ~call.resp[1] => Registered(call.m) = call.pre
    /\ \A m \in Mgrs : \A b \in Range(Registered(m)) : bundle[b].valid

C3_Witness ==
    /\ call.op = "loadBundle"
    /\ call.ret
    /\ call.pre # <<>>
    /\ Registered(call.m) = Append(call.pre, call.arg[1])

Position(list, b) == CHOOSE i \in 1..Len(list) : list[i] = b

\* C4: unloadAll returns true on an empty registry and false on any other;
\* afterwards the registry holds exactly the bundles that were active, in
\* their original order.
C4_UnloadAll ==
    [][call'.op = "unloadAll" =>
        LET pre == mgr[call'.m].m_bundleList
            act == call'.resp
            now == mgr'[call'.m].m_bundleList
        IN /\ call'.ret = (pre = <<>>)
           /\ pre = <<>> => now = <<>>
           /\ \A b \in BundleIds :
                 b \in Range(now) <=> \E i \in 1..Len(pre) : pre[i] = b /\ act[i]
           /\ Len(now) = Cardinality({i \in 1..Len(pre) : act[i]})
           /\ \A i, j \in 1..Len(now) :
                 i < j => Position(pre, now[i]) < Position(pre, now[j])]_vars

\* Two consecutive tombstones, at the head and at the tail of the list,
\* pruned from a registry that keeps nothing.
C4_Witness ==
    /\ call.op = "unloadAll"
    /\ Len(call.resp) >= 2
    /\ ~call.resp[1]
    /\ ~call.resp[Len(call.resp)]
    /\ call.ret = FALSE
    /\ Len(Registered(call.m)) = Len(call.resp) - 2

BothBound(m) == mgr[m].m_front # NULL /\ mgr[m].m_debug # NULL

\* C5: activate rebinds both collaborators to its arguments and leaves the
\* flag true exactly when both arguments are non-null, whatever came before.
C5_Activate ==
    call.op = "activate" =>
        /\ mgr[call.m].m_front = call.arg[1]
        /\ mgr[call.m].m_debug = call.arg[2]
        /\ mgr[call.m].activated <=> (call.arg[1] # NULL /\ call.arg[2] # NULL)

\* An activated manager that activate turned back to not activated.
C5_Witness ==
    /\ call.op = "activate"
    /\ call.pre = <<TRUE>>
    /\ ~mgr[call.m].activated

\* C6 as stated: in every reachable state a manager is activated exactly
\* when both of its collaborator references are non-null.
C6_ActivatedIffBound ==
    \A m \in Mgrs : mgr[m].exists => (mgr[m].activated <=> BothBound(m))

\* C6 as amended: an activated manager has both references non-null; the
\* converse holds right after activate and for every manager clone returned,
\* not for a manager constructed with collaborators and never activated.
C6_ActivatedOnlyIfBound ==
    /\ \A m \in Mgrs : mgr[m].exists /\ mgr[m].activated => BothBound(m)
    /\ mgr[2].exists => (mgr[2].activated <=> BothBound(2))
    /\ call.op = "activate" => (mgr[call.m].activated <=> BothBound(call.m))

\* The clone of a manager that was constructed with both collaborators and
\* never activated: the clone is activated, its source is not.
C6_Witness ==
    /\ call.op = "clone"
    /\ mgr[2].activated
    /\ BothBound(1)
    /\ ~mgr[1].activated

IsCloneStep(m) == mgr[m].exists /\ ~mgr[Other(m)].exists /\ mgr'[Other(m)].exists

\* What a clone step always does: fresh objects only, the collaborators of
\* the source, the source registry untouched.
CloneFrame(m) ==
    LET src == mgr[m].m_bundleList
        dst == mgr'[Other(m)].m_bundleList
    IN /\ mgr'[m].m_bundleList = src
       /\ mgr'[Other(m)].m_front = mgr[m].m_front
       /\ mgr'[Other(m)].m_debug = mgr[m].m_debug
       /\ Range(dst) \cap Range(src) = {}
       /\ \A c \in Range(dst) : bundle[c].st = "none" /\ bundle'[c].st = "live"
       /\ Len(call'.arg) = Len(src)

\* A call that changes one manager's bundle list leaves the other's alone.
Isolation ==
    \A m \in Mgrs :
        (/\ mgr[m].exists
         /\ mgr[Other(m)].exists
         /\ call'.op \in {"loadBundle", "deleteBundle", "unloadAll"}
         /\ call'.m = m)
        => mgr'[Other(m)].m_bundleList = mgr[Other(m)].m_bundleList

\* C7 as stated: the clone of a registry of n bundles holds exactly n
\* bundles, the i-th a fresh clone of the source's i-th.
C7_CloneHoldsAll ==
    [][/\ \A m \in Mgrs : IsCloneStep(m) =>
            /\ CloneFrame(m)
            /\ mgr'[Other(m)].m_bundleList = call'.arg
       /\ Isolation]_vars

KeptClones(clones, valid) ==
    LET idx == {i \in 1..Len(clones) : valid[i]}
        F[k \in 0..Len(clones)] ==
            IF k = 0 THEN <<>>
            ELSE IF k \in idx THEN Append(F[k - 1], clones[k]) ELSE F[k - 1]
    IN F[Len(clones)]

\* C7 as amended: the clone's registry holds, in source order, the fresh
\* clone of every source bundle whose clone is valid after init and reload
\* (all n when every clone is valid); the rest of the claim as stated.
C7_CloneHoldsValid ==
    [][/\ \A m \in Mgrs : IsCloneStep(m) =>
            /\ CloneFrame(m)
            /\ mgr'[Other(m)].m_bundleList = KeptClones(call'.arg, call'.resp)
       /\ Isolation]_vars

\* clone() of a registry [A, B] whose two clones are both valid.
C7_Witness ==
    /\ call.op = "clone"
    /\ Len(call.pre) = 2
    /\ Registered(call.m) = call.pre
    /\ Registered(Other(call.m)) = call.arg
    /\ Range(call.arg) \cap Range(call.pre) = {}

\* C8: no lookup ends the process, whatever the manager state and whatever
\* the bundles answer.
C8_NoHardFailure == ~crashed

IsListing == call.op \in {"listPuyoSkins", "listBackgrounds", "listCharacterSkins", "listSfx"}

Swapped(resp, i, j) ==
    [k \in 1..Len(resp) |-> IF k = i THEN resp[j] ELSE IF k = j THEN resp[i] ELSE resp[k]]

\* C9: an enumeration query returns the union of the listings of all the
\* registered bundles: a name is returned exactly when some bundle lists
\* it, nothing is returned for an empty registry, and reordering the
\* bundles does not change the result.
C9_ListingIsUnion ==
    IsListing =>
        /\ Len(call.resp) = Len(Registered(call.m))
        /\ call.consulted = Len(Registered(call.m))
        /\ \A n \in Names : n \in call.ret <=> \E i \in 1..Len(call.resp) : n \in call.resp[i]
        /\ call.ret \subseteq Names
        /\ Registered(call.m) = <<>> => call.ret = {}
        /\ \A i, j \in 1..Len(call.resp) : ListLoop(Swapped(call.resp, i, j), 1, {}) = call.ret

\* Two bundles that list a common name and differ, the first listing more.
C9_Witness ==
    /\ IsListing
    /\ Len(call.resp) = 2
    /\ call.resp[1] \cap call.resp[2] # {}
    /\ call.resp[1] \ call.resp[2] # {}
    /\ call.ret = call.resp[1]

\* C10: every registered bundle holds its manager's current Debug-Log
\* reference and was last initialised or reloaded with its current Front-end.
C10_CollaboratorsPropagated ==
    \A m \in Mgrs : \A b \in Range(Registered(m)) :
        /\ bundle[b].m_debug = mgr[m].m_debug
        /\ bundle[b].front = mgr[m].m_front
====
